---- MODULE Spec2Model ----
(***************************************************************************)
(* The provider execution loop of the Anthropic and the Deepseek adapter   *)
(* (executeRequest).  JavaScript runs to completion between two awaits, so *)
(* one action is the code from one suspension point (the vendor call, the  *)
(* tool execution) to the next.                                            *)
(***************************************************************************)
EXTENDS Integers, Sequences, FiniteSets, TLC

\* ------------------------------------------------------------------ bounds

\* Number of vendor responses, with the outcomes of their tool invocations,
\* that the environment chooses freely.  Afterwards the vendor either ends
\* the run or is a stub that goes on repeating the one tool batch it has
\* sent in every response.
MaxFree == 1

\* Clock units that pass during one external call.
Tick == 1

\* Vendor calls of a request of a concurrent run that may be answered with a
\* tool invocation.
MaxPairCalls == 1

\* External calls that end in a concurrent run, over all its requests.
MaxPairSteps == 6

\* --------------------------------------------------------------- constants

MAX_ITERATIONS == 10

Providers == {"anthropic", "deepseek"}

\* request.tools, in declaration order; "X" is a name no declared tool has.
DeclaredTools == <<"A", "B">>

\* request.apiKey: absent, the empty string, or a key.
ApiKeys == {<<>>, <<"">>, <<"sk">>}

\* Per-tool usage constraint of the request (usageControl).
UsageConfigs ==
  { [A |-> "auto", B |-> "auto"],
    [A |-> "force", B |-> "auto"],
    [A |-> "force", B |-> "force"] }

\* --------------------------------------------------------- optional values

\* request.messages: no prior turn besides the context, or a prior turn that
\* carries a function call whose arguments string is not JSON.
RequestMessages == {"text", "badCall"}

None == <<>>

Some(x) == <<x>>

\* A usage field the vendor left out.
Missing == -1

\* JavaScript's (x || 0) on a number that may be undefined.
OrZero(x) == IF x = Missing THEN 0 ELSE x

\* ------------------------------------------------------- vendor responses

\* Text is a sequence of tokens: "F" is a run of three backticks, "J" the
\* word json, "N" a newline, " " a blank; the others are ordinary text.
Texts ==
  { <<>>,
    <<"o", "k">>,
    <<"F", "J", "N", "a", "{", "s", "}", "b", "N", "F">> }

\* usage block: absent, complete, or with a field left out.  The Anthropic
\* wire format has no total field; the adapter reads prompt and completion.
Usages ==
  { None,
    Some([prompt |-> 2, completion |-> 1, total |-> 4]),
    Some([prompt |-> 1, completion |-> Missing, total |-> Missing]) }

\* One tool invocation of a response: the vendor's id for it, the tool name
\* and the arguments.
Invocation(id, n, a) == [id |-> id, name |-> n, arguments |-> a]

\* The tool invocations of one response.  arguments "bad" is a string that
\* is not JSON (Deepseek carries arguments as a string).
Batches ==
  { <<>>,
    <<Invocation("c1", "A", "good")>>,
    <<Invocation("c1", "X", "good")>>,
    <<Invocation("c1", "A", "good"), Invocation("c2", "B", "good")>>,
    <<Invocation("c1", "X", "good"), Invocation("c2", "B", "good")>>,
    <<Invocation("c1", "A", "bad"), Invocation("c2", "B", "good")>> }

Responses == [toolUses : Batches, text : Texts, usage : Usages]

\* ------------------------------------------------------------ text helpers

IsBlank(c) == c \in {" ", "N"}

RECURSIVE StripFencesFrom(_, _)
\* content.replace(/```json\n?|\n?```/g, ''), scanning from position i.
StripFencesFrom(t, i) ==
  IF i > Len(t) THEN <<>>
  ELSE IF t[i] = "F" /\ i + 1 <= Len(t) /\ t[i + 1] = "J"
    THEN IF i + 2 <= Len(t) /\ t[i + 2] = "N"
         THEN StripFencesFrom(t, i + 3)
         ELSE StripFencesFrom(t, i + 2)
  ELSE IF t[i] = "N" /\ i + 1 <= Len(t) /\ t[i + 1] = "F"
    THEN StripFencesFrom(t, i + 2)
  ELSE IF t[i] = "F"
    THEN StripFencesFrom(t, i + 1)
  ELSE <<t[i]>> \o StripFencesFrom(t, i + 1)

RECURSIVE Trim(_)
\* content.trim()
Trim(t) ==
  IF t = <<>> THEN t
  ELSE IF IsBlank(t[1]) THEN Trim(Tail(t))
  ELSE IF IsBlank(t[Len(t)]) THEN Trim(SubSeq(t, 1, Len(t) - 1))
  ELSE t

\* The Deepseek clean-up of a response text (skipped for an empty text).
CleanContent(t) == IF t = <<>> THEN t ELSE Trim(StripFencesFrom(t, 1))

Positions(t, c) == {i \in 1..Len(t) : t[i] = c}

Min(S) == CHOOSE x \in S : \A y \in S : x <= y

Max(S) == CHOOSE x \in S : \A y \in S : x >= y

\* The Anthropic post-processing: content.match(/\{[\s\S]*\}/m), the span
\* from the first "{" to the last "}" after it; content is kept otherwise.
ExtractJSON(t) ==
  LET open == Positions(t, "{")
      close == Positions(t, "}")
  IN IF open # {} /\ close # {} /\ Max(close) > Min(open)
     THEN SubSeq(t, Min(open), Max(close))
     ELSE t

\* ------------------------------------------------------ structured output

\* prop.type of a schema property: the five types the template knows, a type
\* it does not know, and "none" for a property without type.
PropertyTypes ==
  {"string", "number", "boolean", "array", "object", "integer", "none"}

Properties == [key : {"score", "name"}, type : PropertyTypes]

\* Object.entries(schema.properties): the properties in declaration order.
PropertyLists ==
  {<<>>} \cup {<<q>> : q \in Properties}
    \cup {<<q, r>> : q \in {x \in Properties : x.key = "score"},
                     r \in {x \in Properties : x.key = "name"}}

\* request.responseFormat: absent, a schema without properties, or a schema
\* with a list of properties.
ResponseFormats ==
  {None, Some([properties |-> None])}
    \cup {Some([properties |-> Some(l)]) : l \in PropertyLists}

\* prop.type || 'string'
TypeOf(q) == IF q.type = "none" THEN "string" ELSE q.type

\* exampleValue: a string holding the placeholder of the type.  A character
\* sequence is a sequence of tokens; "\"" is the double quote.
ExampleValue(type) ==
  CASE type = "string" -> <<"\"", "value", "\"">>
    [] type = "number" -> <<"0">>
    [] type = "boolean" -> <<"true">>
    [] type = "array" -> <<"[", "]">>
    [] type = "object" -> <<"{", "}">>
    [] OTHER -> <<"\"", "value", "\"">>

RECURSIVE Escape(_)
\* The characters of a string inside a JSON string literal.
Escape(str) ==
  IF str = <<>> THEN <<>>
  ELSE (IF Head(str) = "\"" THEN <<"\\", "\"">> ELSE <<Head(str)>>)
         \o Escape(Tail(str))

\* JSON.stringify of a string value.
Stringify(str) == <<"\"">> \o Escape(str) \o <<"\"">>

RECURSIVE TemplateEntries(_, _)
\* The lines of the members of jsonTemplate from position i, indented by 2.
TemplateEntries(l, i) ==
  IF i > Len(l) THEN <<>>
  ELSE <<" ", " ">> \o Stringify(<<l[i].key>>) \o <<":", " ">>
         \o Stringify(ExampleValue(TypeOf(l[i])))
         \o (IF i < Len(l) THEN <<",", "N">> ELSE <<"N">>)
         \o TemplateEntries(l, i + 1)

\* JSON.stringify(jsonTemplate, null, 2), where jsonTemplate maps each key to
\* its exampleValue string.
JsonTemplateStr(l) ==
  IF l = <<>> THEN <<"{", "}">>
  ELSE <<"{", "N">> \o TemplateEntries(l, 1) \o <<"}">>

RECURSIVE FieldDescriptions(_, _)
\* `${key} (${type})${description}` of each property, joined by newlines.
FieldDescriptions(l, i) ==
  IF i > Len(l) THEN <<>>
  ELSE <<l[i].key, " ", "(", TypeOf(l[i]), ")">>
         \o (IF i < Len(l) THEN <<"N">> ELSE <<>>)
         \o FieldDescriptions(l, i + 1)

\* schemaInstructions: empty when the schema has no properties.
SchemaInstructions(schema) ==
  IF schema.properties = None THEN <<>>
  ELSE <<"N", "IMPORTANT RESPONSE FORMAT INSTRUCTIONS:", "N",
         "1. Your response must be EXACTLY in this format, with no additional fields:",
         "N">>
       \o JsonTemplateStr(schema.properties[1])
       \o <<"N", "N", "Field descriptions:", "N">>
       \o FieldDescriptions(schema.properties[1], 1)
       \o <<"N", "N",
            "2. DO NOT include any explanatory text before or after the JSON",
            "N", "3. DO NOT wrap the response in an array",
            "N", "4. DO NOT add any fields not specified in the schema",
            "N", "5. Your response MUST be valid JSON and include all the specified fields with their correct types">>

\* The system prompt of the payload.  Only the Anthropic adapter looks at
\* request.responseFormat.
SystemPromptOf(p, f, base) ==
  IF p = "anthropic" /\ f # None THEN base \o SchemaInstructions(f[1])
  ELSE base

Auto == [kind |-> "auto", name |-> ""]

Absent == [kind |-> "absent", name |-> ""]

Force(n) == [kind |-> "force", name |-> n]

\* typeof tool_choice === 'object'
IsObject(d) == d.kind = "force"

\* A directive that forces no tool.
Unconstrained(d) == d.kind \in {"auto", "absent"}

\* prepareToolsWithUsageControl(...).forcedTools: the ids of the tools whose
\* usage constraint is "force", in declaration order.
ForcedToolsOf(uc) ==
  SelectSeq(DeclaredTools, LAMBDA t : uc[t] = "force")

\* prepareToolsWithUsageControl(...).toolChoice: force the first forced tool,
\* auto when none is forced.
ToolChoiceOf(uc) ==
  IF ForcedToolsOf(uc) = <<>> THEN Auto ELSE Force(ForcedToolsOf(uc)[1])

InSeq(x, q) == \E i \in 1..Len(q) : q[i] = x

BatchNames(b) == {b[i].name : i \in 1..Len(b)}

\* trackForcedToolUsage: the forced tool counts as used when its name is
\* among the invocations of the response obtained under its directive.
TrackForcedToolUsage(b, d, used) ==
  IF IsObject(d) /\ d.name \in BatchNames(b)
  THEN [hasUsedForcedTool |-> TRUE,
        usedForcedTools |-> IF InSeq(d.name, used) THEN used
                            ELSE Append(used, d.name)]
  ELSE [hasUsedForcedTool |-> FALSE, usedForcedTools |-> used]

\* The tool_choice the initial payload carries.
InitialDirective(p, uc) ==
  IF p = "anthropic"
  THEN (IF ToolChoiceOf(uc) = Auto THEN Absent ELSE ToolChoiceOf(uc))
  ELSE ToolChoiceOf(uc)

\* Mutant: tool_choice is never deleted once the forced tools are used.
NextDirectiveKeepsForce(orig, hasUsed, forced, used) ==
  IF IsObject(orig) /\ hasUsed /\ Len(forced) > 0
  THEN LET remaining == SelectSeq(forced, LAMBDA t : ~InSeq(t, used))
       IN IF Len(remaining) > 0 THEN Force(remaining[1]) ELSE orig
  ELSE orig

\* nextPayload.tool_choice of the Anthropic adapter.
NextDirectiveAnthropic(orig, hasUsed, forced, used) ==
  IF IsObject(orig) /\ hasUsed /\ Len(forced) > 0
  THEN LET remaining == SelectSeq(forced, LAMBDA t : ~InSeq(t, used))
       IN IF Len(remaining) > 0 THEN Force(remaining[1]) ELSE Absent
  ELSE IF hasUsed /\ IsObject(orig) THEN Absent
  ELSE orig

\* nextPayload.tool_choice of the Deepseek adapter.
NextDirectiveDeepseek(orig, hasUsed) ==
  IF hasUsed /\ IsObject(orig) THEN Auto ELSE orig

\* Math.random() suffixes of generateToolUseId.
RandomSuffixes == {"r0", "r1"}

\* ------------------------------------------------------------------- state

VARIABLES
  provider, apiKey, usageControl,   \* the adapter and the request
  pc,                      \* start, awaitInitial, awaitNext, awaitTool, returned, raised
  now,                     \* Date.now()
  providerStartTime,       \* None until the execution timer is started
  originalToolChoice, forcedTools,
  directive,               \* tool_choice of the vendor call issued last
  batch, idx,              \* tool invocations of currentResponse, for-of position
  content, tokens, toolCalls, toolResults, currentMessages,
  iterationCount, hasUsedForcedTool, usedForcedTools,
  modelTime, toolsTime, firstResponseTime, timeSegments,
  toolsStartTime, callStart,
  outcome,                 \* what executeRequest returned or raised
  vendorCalls, toolExecs,  \* calls issued to the vendor and to executeTool
  usageSeen,               \* how many responses carried each usage block
  lastOutcome,             \* how the last executeTool call ended
  steady,                  \* every response so far carried the same tool batch
  requestMessages,         \* request.messages, the prior turns
  responseFormat,          \* request.responseFormat
  messages, systemPrompt,  \* the normalized message list and system prompt
  payload, nextPayload,    \* the initial payload; the payload of the latest loop call
  mergedArgs,              \* the arguments of the latest executeTool call
  completed,               \* external calls that have returned or raised
  succeeded,               \* tool executions that returned success
  lastText,                \* text of the latest response that carried any
  reqs                     \* the requests of a concurrent run, by number

config == <<provider, apiKey, usageControl, requestMessages, responseFormat>>

\* The local variables of executeRequest, the clock apart.
locals ==
  <<pc, providerStartTime, originalToolChoice, forcedTools, directive, batch,
    idx, content, tokens, toolCalls, toolResults, currentMessages,
    iterationCount, hasUsedForcedTool, usedForcedTools, modelTime, toolsTime,
    firstResponseTime, timeSegments, toolsStartTime, callStart, outcome,
    vendorCalls, toolExecs, messages, systemPrompt, payload, nextPayload,
    mergedArgs>>

\* What the environment has seen of the request's external calls.
observed == <<usageSeen, lastOutcome, steady, completed, succeeded, lastText>>

vars ==
  <<provider, apiKey, usageControl, pc, now, providerStartTime,
    originalToolChoice, forcedTools, directive, batch, idx, content, tokens,
    toolCalls, toolResults, currentMessages, iterationCount,
    hasUsedForcedTool, usedForcedTools, modelTime, toolsTime,
    firstResponseTime, timeSegments, toolsStartTime, callStart, outcome,
    vendorCalls, toolExecs, usageSeen, lastOutcome, steady,
    requestMessages, responseFormat, messages, systemPrompt, payload,
    nextPayload, mergedArgs, completed,
    succeeded, lastText, reqs>>

\* The request-local state as one record, for the code between two awaits.
S ==
  [pc |-> pc, now |-> now, providerStartTime |-> providerStartTime,
   originalToolChoice |-> originalToolChoice, forcedTools |-> forcedTools,
   directive |-> directive, batch |-> batch, idx |-> idx,
   content |-> content, tokens |-> tokens, toolCalls |-> toolCalls,
   toolResults |-> toolResults, currentMessages |-> currentMessages,
   iterationCount |-> iterationCount,
   hasUsedForcedTool |-> hasUsedForcedTool,
   usedForcedTools |-> usedForcedTools, modelTime |-> modelTime,
   toolsTime |-> toolsTime, firstResponseTime |-> firstResponseTime,
   timeSegments |-> timeSegments, toolsStartTime |-> toolsStartTime,
   callStart |-> callStart, outcome |-> outcome,
   vendorCalls |-> vendorCalls, toolExecs |-> toolExecs,
   messages |-> messages, systemPrompt |-> systemPrompt,
   payload |-> payload, nextPayload |-> nextPayload,
   mergedArgs |-> mergedArgs]

Apply(n) ==
  /\ pc' = n.pc
  /\ now' = n.now
  /\ providerStartTime' = n.providerStartTime
  /\ originalToolChoice' = n.originalToolChoice
  /\ forcedTools' = n.forcedTools
  /\ directive' = n.directive
  /\ batch' = n.batch
  /\ idx' = n.idx
  /\ content' = n.content
  /\ tokens' = n.tokens
  /\ toolCalls' = n.toolCalls
  /\ toolResults' = n.toolResults
  /\ currentMessages' = n.currentMessages
  /\ iterationCount' = n.iterationCount
  /\ hasUsedForcedTool' = n.hasUsedForcedTool
  /\ usedForcedTools' = n.usedForcedTools
  /\ modelTime' = n.modelTime
  /\ toolsTime' = n.toolsTime
  /\ firstResponseTime' = n.firstResponseTime
  /\ timeSegments' = n.timeSegments
  /\ toolsStartTime' = n.toolsStartTime
  /\ callStart' = n.callStart
  /\ outcome' = n.outcome
  /\ vendorCalls' = n.vendorCalls
  /\ toolExecs' = n.toolExecs
  /\ messages' = n.messages
  /\ systemPrompt' = n.systemPrompt
  /\ payload' = n.payload
  /\ nextPayload' = n.nextPayload
  /\ mergedArgs' = n.mergedArgs

\* The messages of the payload: the context as a user turn, then the prior
\* turns.  Deepseek passes a prior turn on as it is.
Normalize(p, m) ==
  IF m = "badCall"
  THEN << [role |-> "user", type |-> "text", id |-> <<>>, name |-> ""],
          [role |-> "assistant", type |-> "function_call", id |-> <<>>,
           name |-> "A"] >>
  ELSE << [role |-> "user", type |-> "text", id |-> <<>>, name |-> ""] >>

\* JSON.parse(msg.function_call.arguments) of the Anthropic normalization
\* throws.
NormalizeFails(p, m) == p = "anthropic" /\ m = "badCall"

\* const payload = {model, messages, system, max_tokens, temperature, tools,
\* tool_choice}.  The Deepseek adapter has the system prompt among the
\* messages and no system field.
Payload(p, uc, msgs, sys) ==
  [model |-> "model", messages |-> msgs,
   system |-> IF p = "anthropic" THEN Some(sys) ELSE None,
   sampling |-> "sampling", tools |-> DeclaredTools,
   tool_choice |-> InitialDirective(p, uc)]

Pending == [kind |-> "pending", envelope |-> None, timing |-> None]

\* The local state of executeRequest when it is entered.
Fresh ==
  [pc |-> "start", now |-> 0, providerStartTime |-> None,
   originalToolChoice |-> Absent, forcedTools |-> <<>>, directive |-> Absent,
   batch |-> <<>>, idx |-> 0, content |-> <<>>,
   tokens |-> [prompt |-> 0, completion |-> 0, total |-> 0],
   toolCalls |-> <<>>, toolResults |-> <<>>, currentMessages |-> <<>>,
   iterationCount |-> 0, hasUsedForcedTool |-> FALSE,
   usedForcedTools |-> <<>>, modelTime |-> 0, toolsTime |-> 0,
   firstResponseTime |-> 0, timeSegments |-> <<>>, toolsStartTime |-> 0,
   callStart |-> 0, outcome |-> Pending, vendorCalls |-> 0, toolExecs |-> 0,
   messages |-> <<>>, systemPrompt |-> <<>>, payload |-> None,
   nextPayload |-> None, mergedArgs |-> None]

\* No call has been made yet.
Idle ==
  /\ pc = Fresh.pc
  /\ now = Fresh.now
  /\ providerStartTime = Fresh.providerStartTime
  /\ originalToolChoice = Fresh.originalToolChoice
  /\ forcedTools = Fresh.forcedTools
  /\ directive = Fresh.directive
  /\ batch = Fresh.batch
  /\ idx = Fresh.idx
  /\ content = Fresh.content
  /\ tokens = Fresh.tokens
  /\ toolCalls = Fresh.toolCalls
  /\ toolResults = Fresh.toolResults
  /\ currentMessages = Fresh.currentMessages
  /\ iterationCount = Fresh.iterationCount
  /\ hasUsedForcedTool = Fresh.hasUsedForcedTool
  /\ usedForcedTools = Fresh.usedForcedTools
  /\ modelTime = Fresh.modelTime
  /\ toolsTime = Fresh.toolsTime
  /\ firstResponseTime = Fresh.firstResponseTime
  /\ timeSegments = Fresh.timeSegments
  /\ toolsStartTime = Fresh.toolsStartTime
  /\ callStart = Fresh.callStart
  /\ outcome = Fresh.outcome
  /\ vendorCalls = Fresh.vendorCalls
  /\ toolExecs = Fresh.toolExecs
  /\ messages = Fresh.messages
  /\ systemPrompt = Fresh.systemPrompt
  /\ payload = Fresh.payload
  /\ nextPayload = Fresh.nextPayload
  /\ mergedArgs = Fresh.mergedArgs
  /\ usageSeen = [u \in Usages |-> 0]
  /\ lastOutcome = "none"
  /\ steady = TRUE
  /\ completed = 0
  /\ succeeded = 0
  /\ lastText = <<>>

\* The usage constraints that force no tool.
NoForce == [A |-> "auto", B |-> "auto"]

Init ==
  /\ provider \in Providers
  /\ apiKey \in ApiKeys
  /\ usageControl \in UsageConfigs
  /\ requestMessages \in RequestMessages
  /\ requestMessages = "badCall" => usageControl = NoForce
  /\ responseFormat = None
  /\ Idle
  /\ reqs = <<>>

\* ------------------------------------------------- the code between awaits

\* Mutant: only an absent key is rejected, the empty string is accepted.
FalsyOnlyAbsent(k) == k = None

Falsy(k) == k = None \/ k = Some("")

Segment(type, name, start, end) ==
  [type |-> type, name |-> name, startTime |-> start, endTime |-> end,
   duration |-> end - start]

UsageField(u, f) == IF u = None THEN 0 ELSE OrZero(u[1][f])

\* let tokens = {...} after the initial response.
InitialTokens(p, u) ==
  [prompt |-> UsageField(u, "prompt"),
   completion |-> UsageField(u, "completion"),
   total |-> IF p = "anthropic"
             THEN UsageField(u, "prompt") + UsageField(u, "completion")
             ELSE UsageField(u, "total")]

\* Mutant: the totals are reset to the usage of the latest response.
AddTokensReset(p, t, u) ==
  [prompt |-> UsageField(u, "prompt"),
   completion |-> UsageField(u, "completion"),
   total |-> IF p = "anthropic"
             THEN UsageField(u, "prompt") + UsageField(u, "completion")
             ELSE UsageField(u, "total")]

\* "Update token counts" after a later response.
AddTokens(p, t, u) ==
  IF u = None THEN t
  ELSE [prompt |-> t.prompt + UsageField(u, "prompt"),
        completion |-> t.completion + UsageField(u, "completion"),
        total |-> t.total +
                  (IF p = "anthropic"
                   THEN UsageField(u, "prompt") + UsageField(u, "completion")
                   ELSE UsageField(u, "total"))]

\* The text a response contributes to content.
ResponseText(p, text) == IF p = "anthropic" THEN text ELSE CleanContent(text)

\* Mutant: content is set from every response, with or without text.
UpdateContentAlways(p, c, text) == ResponseText(p, text)

\* "Update content if we have a text response".
UpdateContent(p, c, text) == IF text # <<>> THEN ResponseText(p, text) ELSE c

\* JSON.parse(toolCall.function.arguments) succeeds.
Parses(a) == a # "bad"

\* Mutant: the tool is not looked up in request.tools.
ResolvesUndeclared(p, inv) == p = "deepseek" => Parses(inv.arguments)

\* The invocation reaches executeTool: its arguments parse (Deepseek) and
\* request.tools has a tool with its name.
Resolves(p, inv) ==
  /\ p = "deepseek" => Parses(inv.arguments)
  /\ InSeq(inv.name, DeclaredTools)

\* Mutant: the for-of goes to the last invocation that can be executed.
NextToolLast(p, b, from) ==
  IF \E j \in from..Len(b) : Resolves(p, b[j])
  THEN Max({j \in from..Len(b) : Resolves(p, b[j])})
  ELSE Len(b) + 1

\* The next position of the for-of at or after from whose invocation is
\* executed; Len(b) + 1 when the for-of is over.
NextTool(p, b, from) ==
  IF \E j \in from..Len(b) : Resolves(p, b[j])
  THEN Min({j \in from..Len(b) : Resolves(p, b[j])})
  ELSE Len(b) + 1

\* Mutant: the loop runs once more than the cap allows.
LoopContinuesOffByOne(count, b) == count <= MAX_ITERATIONS /\ Len(b) > 0

\* Mutant: no break when the response carries no tool invocation.
LoopContinuesNoBreak(count, b) == count < MAX_ITERATIONS

\* Mutant: no iteration cap.
LoopContinuesNoCap(count, b) == Len(b) > 0

\* while (iterationCount < MAX_ITERATIONS) with the break on no tool use.
LoopContinues(count, b) == count < MAX_ITERATIONS /\ Len(b) > 0

\* nextPayload.tool_choice
NextDirective(p, s) ==
  IF p = "anthropic"
  THEN NextDirectiveAnthropic(s.originalToolChoice, s.hasUsedForcedTool,
                              s.forcedTools, s.usedForcedTools)
  ELSE NextDirectiveDeepseek(s.originalToolChoice, s.hasUsedForcedTool)

\* Mutant: an empty list is returned as an empty list.
OptionalEmptyList(q) == Some(q)

\* toolCalls.length > 0 ? toolCalls : undefined
Optional(q) == IF Len(q) > 0 THEN Some(q) ELSE None

\* The content of the returned envelope.
FinalContent(p, c) == IF p = "anthropic" THEN ExtractJSON(c) ELSE c

\* return {content, model, tokens, toolCalls, toolResults, timing}
Finish(p, s) ==
  [s EXCEPT
     !.pc = "returned",
     !.outcome =
       [kind |-> "envelope",
        envelope |-> Some([content |-> FinalContent(p, s.content),
                           tokens |-> s.tokens,
                           toolCalls |-> Optional(s.toolCalls),
                           toolResults |-> Optional(s.toolResults)]),
        timing |-> Some([startTime |-> s.providerStartTime[1],
                         endTime |-> s.now,
                         duration |-> s.now - s.providerStartTime[1],
                         modelTime |-> s.modelTime,
                         toolsTime |-> s.toolsTime,
                         firstResponseTime |-> s.firstResponseTime,
                         iterations |-> s.iterationCount + 1,
                         timeSegments |-> s.timeSegments])]]

\* The outer catch: throw enhancedError with timing.
Fail(s) ==
  [s EXCEPT
     !.pc = "raised",
     !.outcome =
       [kind |-> "error",
        envelope |-> None,
        timing |-> Some([startTime |-> s.providerStartTime[1],
                         endTime |-> s.now,
                         duration |-> s.now - s.providerStartTime[1]])]]

\* throw new Error('API key is required ...')
ConfigurationError(s) ==
  [s EXCEPT
     !.pc = "raised",
     !.outcome = [kind |-> "error", envelope |-> None, timing |-> None]]

\* tool.params, the preset parameters of a declared tool: A presets k and
\* p, B has none.
ToolParams(name) ==
  IF name = "A" THEN [k |-> "preset", p |-> "preset"] ELSE <<>>

\* toolArgs, the arguments object the model supplied: it sets k and q.
ToolArgs(a) == [k |-> "model", q |-> "model"]

\* Mutant: {...toolArgs, ...tool.params}, the presets win.
MergePresetsWin(a, b) ==
  [x \in DOMAIN a \cup DOMAIN b |-> IF x \in DOMAIN a THEN a[x] ELSE b[x]]

\* {...a, ...b}: the keys of both, b winning where both have the key.
Merge(a, b) ==
  [x \in DOMAIN a \cup DOMAIN b |-> IF x \in DOMAIN b THEN b[x] ELSE a[x]]

\* await executeTool(toolName, mergedArgs) for the invocation at position j.
IssueTool(s, j) ==
  [s EXCEPT !.pc = "awaitTool", !.idx = j, !.callStart = s.now,
            !.mergedArgs = Some(Merge(ToolParams(s.batch[j].name),
                                      ToolArgs(s.batch[j].arguments))),
            !.toolExecs = s.toolExecs + 1]

\* const nextPayload = {...payload, messages: currentMessages} with its
\* tool_choice set or deleted.
NextPayload(p, s) ==
  [s.payload[1] EXCEPT !.messages = s.currentMessages,
                       !.tool_choice = NextDirective(p, s)]

\* Mutant: nextPayload is the payload object itself and not a copy of it.
IssueNextInPlace(p, s) ==
  [s EXCEPT !.pc = "awaitNext",
            !.idx = 0,
            !.toolsTime = s.toolsTime + (s.now - s.toolsStartTime),
            !.directive = NextDirective(p, s),
            !.payload = Some(NextPayload(p, s)),
            !.nextPayload = Some(NextPayload(p, s)),
            !.callStart = s.now,
            !.vendorCalls = s.vendorCalls + 1]

\* After the for-of: toolsTime, nextPayload and the next vendor call.
IssueNext(p, s) ==
  [s EXCEPT !.pc = "awaitNext",
            !.idx = 0,
            !.toolsTime = s.toolsTime + (s.now - s.toolsStartTime),
            !.directive = NextDirective(p, s),
            !.nextPayload = Some(NextPayload(p, s)),
            !.callStart = s.now,
            !.vendorCalls = s.vendorCalls + 1]

\* Mutant: after a for-of that recorded no tool call the loop is left.
ProceedStopsWhenIdle(p, s, from) ==
  IF NextTool(p, s.batch, from) <= Len(s.batch)
  THEN IssueTool(s, NextTool(p, s.batch, from))
  ELSE IF \E i \in 1..Len(s.toolCalls) :
             s.toolCalls[i].startTime >= s.toolsStartTime
       THEN IssueNext(p, s)
       ELSE Finish(p, s)

\* The for-of from position from up to its next await.
Proceed(p, s, from) ==
  IF NextTool(p, s.batch, from) <= Len(s.batch)
  THEN IssueTool(s, NextTool(p, s.batch, from))
  ELSE IssueNext(p, s)

\* The head of the while loop, up to the next await or the return.
LoopHead(p, s) ==
  IF LoopContinues(s.iterationCount, s.batch)
  THEN Proceed(p, [s EXCEPT !.toolsStartTime = s.now], 1)
  ELSE Finish(p, [s EXCEPT !.idx = 0])

\* An exception of the normalization, which the Anthropic adapter runs
\* before the timer is started and outside the try.
NormalizationError(s) ==
  [s EXCEPT
     !.pc = "raised",
     !.outcome = [kind |-> "error", envelope |-> None, timing |-> None]]

\* The request is validated, normalized and the initial call is issued.
Start(p, k, m, f, uc, s) ==
  IF Falsy(k) THEN ConfigurationError(s)
  ELSE IF NormalizeFails(p, m) THEN NormalizationError(s)
  ELSE [s EXCEPT !.pc = "awaitInitial",
                 !.messages = Normalize(p, m),
                 !.systemPrompt = SystemPromptOf(p, f, s.systemPrompt),
                 !.payload =
                    Some(Payload(p, uc, Normalize(p, m),
                                 SystemPromptOf(p, f, s.systemPrompt))),
                 !.providerStartTime = Some(s.now),
                 !.originalToolChoice = InitialDirective(p, uc),
                 !.forcedTools = IF p = "anthropic" THEN ForcedToolsOf(uc)
                                 ELSE <<>>,
                 !.directive = InitialDirective(p, uc),
                 !.callStart = s.now,
                 !.vendorCalls = s.vendorCalls + 1]

\* "Check if a forced tool was used in the first response".
InitialTracking(p, s, b) ==
  IF p = "anthropic"
  THEN IF IsObject(s.originalToolChoice) /\ Len(b) > 0
       THEN TrackForcedToolUsage(b, s.originalToolChoice, s.usedForcedTools)
       ELSE [hasUsedForcedTool |-> FALSE, usedForcedTools |-> s.usedForcedTools]
  ELSE IF IsObject(s.originalToolChoice)
       THEN [hasUsedForcedTool |->
               TrackForcedToolUsage(b, s.originalToolChoice, <<>>).hasUsedForcedTool,
             usedForcedTools |-> s.usedForcedTools]
       ELSE [hasUsedForcedTool |-> FALSE, usedForcedTools |-> s.usedForcedTools]

\* Mutant: the loop forgets that a forced tool was used when the latest
\* response does not use the one forced now.
LoopTrackingForgets(p, s, b) ==
  IF IsObject(s.directive) /\ Len(b) > 0
  THEN [hasUsedForcedTool |->
          TrackForcedToolUsage(b, s.directive, s.usedForcedTools).hasUsedForcedTool,
        usedForcedTools |->
          TrackForcedToolUsage(b, s.directive, s.usedForcedTools).usedForcedTools]
  ELSE [hasUsedForcedTool |-> FALSE, usedForcedTools |-> s.usedForcedTools]

\* "Check if any forced tools were used in this response".
LoopTracking(p, s, b) ==
  IF p = "anthropic"
  THEN IF IsObject(s.directive) /\ Len(b) > 0
       THEN [hasUsedForcedTool |->
               TrackForcedToolUsage(b, s.directive, s.usedForcedTools).hasUsedForcedTool
               \/ s.hasUsedForcedTool,
             usedForcedTools |->
               TrackForcedToolUsage(b, s.directive, s.usedForcedTools).usedForcedTools]
       ELSE [hasUsedForcedTool |-> s.hasUsedForcedTool,
             usedForcedTools |-> s.usedForcedTools]
  ELSE IF ~s.hasUsedForcedTool /\ IsObject(s.originalToolChoice)
       THEN [hasUsedForcedTool |->
               TrackForcedToolUsage(b, s.originalToolChoice, <<>>).hasUsedForcedTool,
             usedForcedTools |-> s.usedForcedTools]
       ELSE [hasUsedForcedTool |-> s.hasUsedForcedTool,
             usedForcedTools |-> s.usedForcedTools]

\* The initial vendor call returned r at time t.
InitialResponse(p, s, r, t) ==
  LoopHead(p,
    [s EXCEPT
       !.now = t,
       !.batch = r.toolUses,
       !.firstResponseTime = t - s.callStart,
       !.content = ResponseText(p, r.text),
       !.tokens = InitialTokens(p, r.usage),
       !.toolCalls = <<>>,
       !.toolResults = <<>>,
       !.currentMessages = s.messages,
       !.iterationCount = 0,
       !.modelTime = t - s.callStart,
       !.toolsTime = 0,
       !.timeSegments =
          <<Segment("model", "Initial response", s.callStart,
                    s.callStart + (t - s.callStart))>>,
       !.hasUsedForcedTool = InitialTracking(p, s, r.toolUses).hasUsedForcedTool,
       !.usedForcedTools = InitialTracking(p, s, r.toolUses).usedForcedTools])

\* Mutant: the loop records no segment for its vendor calls.
NextResponseNoSegment(p, s, r, t) ==
  LoopHead(p,
    [s EXCEPT
       !.now = t,
       !.batch = r.toolUses,
       !.hasUsedForcedTool = LoopTracking(p, s, r.toolUses).hasUsedForcedTool,
       !.usedForcedTools = LoopTracking(p, s, r.toolUses).usedForcedTools,
       !.modelTime = s.modelTime + (t - s.callStart),
       !.content = UpdateContent(p, s.content, r.text),
       !.tokens = AddTokens(p, s.tokens, r.usage),
       !.iterationCount = s.iterationCount + 1])

\* A vendor call of the loop returned r at time t.
NextResponse(p, s, r, t) ==
  LoopHead(p,
    [s EXCEPT
       !.now = t,
       !.batch = r.toolUses,
       !.hasUsedForcedTool = LoopTracking(p, s, r.toolUses).hasUsedForcedTool,
       !.usedForcedTools = LoopTracking(p, s, r.toolUses).usedForcedTools,
       !.timeSegments =
          Append(s.timeSegments,
                 Segment("model", "Model response", s.callStart, t)),
       !.modelTime = s.modelTime + (t - s.callStart),
       !.content = UpdateContent(p, s.content, r.text),
       !.tokens = AddTokens(p, s.tokens, r.usage),
       !.iterationCount = s.iterationCount + 1])

\* Mutant: a vendor call that raised is issued again, twice at most.
VendorRaisedRetries(p, s, t) ==
  IF s.vendorCalls < 3
  THEN [s EXCEPT !.now = t, !.callStart = t, !.vendorCalls = s.vendorCalls + 1]
  ELSE Fail([s EXCEPT !.now = t])

\* A vendor call raised at time t: the inner catch, then the outer one.
VendorRaised(p, s, t) ==
  IF p = "deepseek" /\ s.pc = "awaitNext"
  THEN Finish(p, [s EXCEPT !.now = t])
  ELSE Fail([s EXCEPT !.now = t])

\* generateToolUseId(toolName)
GenerateToolUseId(name, t, r) == <<name, t, r>>

\* The correlation identifier of the appended message pair.
ToolUseId(p, inv, t, r) ==
  IF p = "anthropic" THEN GenerateToolUseId(inv.name, t, r) ELSE <<inv.id>>

\* result.success of what executeTool returned: "ok" is a success whose
\* output is JSON data, "cyclic" a success whose output JSON.stringify
\* rejects (an object that refers to itself, a BigInt), "fail" a failure.
Success(o) == o \in {"ok", "cyclic"}

\* result.output for one invocation.
Output(inv, o) == <<IF o = "cyclic" THEN "cyclic" ELSE "output", inv.name>>

\* The two pushes to currentMessages.  The argument of the second push
\* holds JSON.stringify(result.output): when that throws, the second push
\* is not made and the catch of the for-of body takes over.
AppendPair(p, msgs, inv, t, r, o) ==
  msgs \o
    << [role |-> "assistant", type |-> "tool_use",
        id |-> ToolUseId(p, inv, t, r), name |-> inv.name] >> \o
    (IF o = "cyclic" THEN <<>>
     ELSE << [role |-> IF p = "anthropic" THEN "user" ELSE "tool",
              type |-> "tool_result",
              id |-> ToolUseId(p, inv, t, r), name |-> inv.name] >>)

\* Mutant: the record lists are assigned anew, with the latest record only.
RecordToolKeepsLast(p, s, inv, t, r, o) ==
  [s EXCEPT
     !.timeSegments =
        Append(s.timeSegments, Segment("tool", inv.name, s.callStart, t)),
     !.toolResults = <<Output(inv, o)>>,
     !.toolCalls =
        <<[name |-> inv.name, arguments |-> inv.arguments,
           startTime |-> s.callStart, endTime |-> t,
           duration |-> t - s.callStart, result |-> Output(inv, o)]>>,
     !.currentMessages = AppendPair(p, s.currentMessages, inv, t, r, o)]

\* The body of the for-of after executeTool returned a successful result.
RecordTool(p, s, inv, t, r, o) ==
  [s EXCEPT
     !.timeSegments =
        Append(s.timeSegments, Segment("tool", inv.name, s.callStart, t)),
     !.toolResults = Append(s.toolResults, Output(inv, o)),
     !.toolCalls =
        Append(s.toolCalls,
               [name |-> inv.name, arguments |-> inv.arguments,
                startTime |-> s.callStart, endTime |-> t,
                duration |-> t - s.callStart, result |-> Output(inv, o)]),
     !.currentMessages = AppendPair(p, s.currentMessages, inv, t, r, o)]

\* Mutant: the success flag of the result is not looked at.
ToolDoneIgnoresSuccess(p, s, o, t, r) ==
  Proceed(p,
          IF o \in {"ok", "cyclic", "fail"}
          THEN RecordTool(p, [s EXCEPT !.now = t], s.batch[s.idx], t, r, o)
          ELSE [s EXCEPT !.now = t],
          s.idx + 1)

\* Mutant: an exception of executeTool is not caught inside the for-of.
ToolDoneThrowEscapes(p, s, o, t, r) ==
  IF o = "throw" THEN Fail([s EXCEPT !.now = t])
  ELSE Proceed(p,
               IF Success(o)
               THEN RecordTool(p, [s EXCEPT !.now = t], s.batch[s.idx], t, r, o)
               ELSE [s EXCEPT !.now = t],
               s.idx + 1)

\* executeTool returned (ok, cyclic, fail) or threw at time t; r is the
\* random suffix of the generated id.
ToolDone(p, s, o, t, r) ==
  Proceed(p,
          IF Success(o)
          THEN RecordTool(p, [s EXCEPT !.now = t], s.batch[s.idx], t, r, o)
          ELSE [s EXCEPT !.now = t],
          s.idx + 1)

\* ----------------------------------------------------------------- actions

\* The environment chooses freely up to the MaxFree-th vendor response.
FreePhase == vendorCalls <= MaxFree

\* Later the vendor ends the run, or repeats the tool batch it always sent.
StubResponses ==
  { r \in Responses :
      /\ r.toolUses \in (IF steady THEN {batch, <<>>} ELSE {<<>>})
      /\ r.text = (IF r.toolUses = <<>> THEN <<"o", "k">> ELSE <<>>)
      /\ r.usage # None
      /\ r.usage[1].completion # Missing }

OfferedResponses == IF FreePhase THEN Responses ELSE StubResponses

Count(u) == [usageSeen EXCEPT ![u] = @ + 1]

Invoke ==
  /\ pc = "start"
  /\ Apply(Start(provider, apiKey, requestMessages, responseFormat,
                 usageControl, S))
  /\ UNCHANGED <<config, observed, reqs>>

\* The text of the latest response that carried any, after response r.
Latest(r) == IF r.text # <<>> THEN r.text ELSE lastText

InitialCallReturns ==
  /\ pc = "awaitInitial"
  /\ \E r \in OfferedResponses :
       /\ Apply(InitialResponse(provider, S, r, now + Tick))
       /\ usageSeen' = Count(r.usage)
       /\ lastText' = Latest(r)
  /\ completed' = completed + 1
  /\ UNCHANGED <<config, lastOutcome, steady, succeeded, reqs>>

NextCallReturns ==
  /\ pc = "awaitNext"
  /\ \E r \in OfferedResponses :
       /\ Apply(NextResponse(provider, S, r, now + Tick))
       /\ usageSeen' = Count(r.usage)
       /\ lastText' = Latest(r)
       /\ steady' = (steady /\ r.toolUses \in {batch, <<>>})
  /\ completed' = completed + 1
  /\ UNCHANGED <<config, lastOutcome, succeeded, reqs>>

VendorCallRaises ==
  /\ pc \in {"awaitInitial", "awaitNext"}
  /\ Apply(VendorRaised(provider, S, now + Tick))
  /\ completed' = completed + 1
  /\ UNCHANGED <<config, usageSeen, lastOutcome, steady, succeeded, lastText,
                 reqs>>

\* What executeTool may return: anything in the free phase, an output that
\* JSON.stringify rejects only from the first execution of the request.
ToolOutcomes ==
  IF FreePhase
  THEN {"ok", "fail"} \cup (IF toolExecs = 1 THEN {"cyclic"} ELSE {})
  ELSE {"ok"}

\* What Math.random() may give for the id of the message pair: anything
\* for the first execution of the request, r0 later.
Suffixes(o) ==
  IF provider = "anthropic" /\ o = "ok" /\ toolExecs = 1
  THEN RandomSuffixes ELSE {"r0"}

ToolReturns ==
  /\ pc = "awaitTool"
  /\ \E o \in ToolOutcomes :
     \E r \in Suffixes(o) :
       /\ Apply(ToolDone(provider, S, o, now + Tick, r))
       /\ lastOutcome' = o
       /\ succeeded' = IF o \in {"ok", "cyclic"} THEN succeeded + 1
                       ELSE succeeded
  /\ completed' = completed + 1
  /\ UNCHANGED <<config, usageSeen, steady, lastText, reqs>>

ToolThrows ==
  /\ pc = "awaitTool"
  /\ FreePhase
  /\ Apply(ToolDone(provider, S, "throw", now + Tick, "r0"))
  /\ lastOutcome' = "throw"
  /\ completed' = completed + 1
  /\ UNCHANGED <<config, usageSeen, steady, succeeded, lastText, reqs>>

Next ==
  \/ Invoke
  \/ InitialCallReturns
  \/ NextCallReturns
  \/ VendorCallRaises
  \/ ToolReturns
  \/ ToolThrows

Spec == Init /\ [][Next]_vars

\* -------------------------------------------------- structured-output mode

\* Requests with and without a structured-output schema, normalized up to
\* the initial call.
SchemaInit ==
  /\ provider \in Providers
  /\ apiKey = Some("sk")
  /\ usageControl = NoForce
  /\ requestMessages = "text"
  /\ responseFormat \in ResponseFormats
  /\ Idle
  /\ reqs = <<>>

SchemaSpec == SchemaInit /\ [][Invoke]_vars

\* ------------------------------------------------------- concurrent requests

\* Several invocations of executeRequest run interleaved at their awaits.
\* Each has the variables of its own call; Date.now() is the one clock.

\* What resumes an invocation: its call, or the end of the external call it
\* awaits.
InvokeEvent ==
  [kind |-> "invoke", response |-> None, o |-> "none", suffix |-> "r0"]

ResponseEvent(r) ==
  [kind |-> "response", response |-> Some(r), o |-> "none", suffix |-> "r0"]

RaiseEvent ==
  [kind |-> "raise", response |-> None, o |-> "none", suffix |-> "r0"]

ToolEvent(o) == [kind |-> "tool", response |-> None, o |-> o, suffix |-> "r0"]

\* The code of request c that event e resumes in local state s, up to the
\* next await; t is the time at which an awaited call ends.
Deliver(c, s, e, t) ==
  CASE e.kind = "invoke" ->
         Start(c.provider, c.apiKey, c.requestMessages, c.responseFormat,
               c.usageControl, s)
    [] e.kind = "response" ->
         IF s.pc = "awaitInitial"
         THEN InitialResponse(c.provider, s, e.response[1], t)
         ELSE NextResponse(c.provider, s, e.response[1], t)
    [] e.kind = "raise" -> VendorRaised(c.provider, s, t)
    [] OTHER -> ToolDone(c.provider, s, e.o, t, e.suffix)

\* The same, at clock time clock.
Step(c, s, e, clock) == Deliver(c, [s EXCEPT !.now = clock], e, clock + Tick)

\* Mutant: the accumulators are declared at module scope, so that every
\* invocation works on those of the first.
OwnShared(i) == reqs[1].s

\* The variables that invocation i of executeRequest declares.
Own(i) == reqs[i].s

PairRequests ==
  { [provider |-> p, apiKey |-> Some("sk"), requestMessages |-> "text",
     responseFormat |-> None, usageControl |-> [A |-> "force", B |-> "auto"],
     s |-> Fresh, log |-> <<>>] : p \in Providers }

PairInit ==
  /\ provider = "anthropic"
  /\ apiKey = Some("sk")
  /\ usageControl = NoForce
  /\ requestMessages = "text"
  /\ responseFormat = None
  /\ Idle
  /\ reqs \in [{1, 2} -> PairRequests]

\* The vendor of a concurrent run: a final answer, or, up to the
\* MaxPairCalls-th call, an invocation of tool A.
PairResponses(s) ==
  { r \in Responses :
      /\ r.usage = Some([prompt |-> 2, completion |-> 1, total |-> 4])
      /\ \/ r.toolUses = <<>> /\ r.text # <<>> /\ r.text # <<"o", "k">>
         \/ /\ s.vendorCalls <= MaxPairCalls
            /\ r.toolUses = <<Invocation("c1", "A", "good")>>
            /\ r.text = <<"o", "k">> }

PairStep(i, e) ==
  /\ e.kind # "invoke" => now < MaxPairSteps * Tick
  /\ reqs' = [reqs EXCEPT ![i].s = Step(reqs[i], Own(i), e, now),
                          ![i].log = Append(@, e)]
  /\ now' = IF e.kind = "invoke" THEN now ELSE now + Tick
  /\ UNCHANGED <<config, locals, observed>>

PairInvoke ==
  \E i \in DOMAIN reqs :
    /\ Own(i).pc = "start"
    /\ PairStep(i, InvokeEvent)

PairCallReturns ==
  \E i \in DOMAIN reqs :
    /\ Own(i).pc \in {"awaitInitial", "awaitNext"}
    /\ \E r \in PairResponses(Own(i)) : PairStep(i, ResponseEvent(r))

PairCallRaises ==
  \E i \in DOMAIN reqs :
    /\ Own(i).pc \in {"awaitInitial", "awaitNext"}
    /\ PairStep(i, RaiseEvent)

PairToolReturns ==
  \E i \in DOMAIN reqs :
    /\ Own(i).pc = "awaitTool"
    /\ \E o \in {"ok", "fail"} : PairStep(i, ToolEvent(o))

PairToolThrows ==
  \E i \in DOMAIN reqs :
    /\ Own(i).pc = "awaitTool"
    /\ PairStep(i, ToolEvent("throw"))

PairNext ==
  \/ PairInvoke
  \/ PairCallReturns
  \/ PairCallRaises
  \/ PairToolReturns
  \/ PairToolThrows

PairSpec == PairInit /\ [][PairNext]_vars

\* ------------------------------------------------------------------ claims

Done == pc \in {"returned", "raised"}

Envelope == outcome.envelope[1]

Timing == outcome.timing[1]

\* A loop vendor call is issued in this step.
IssuesNextCall == vendorCalls >= 1 /\ vendorCalls' = vendorCalls + 1

\* C1: a request whose apiKey is missing or empty fails before any vendor
\* call or tool execution is issued and before the execution timer is
\* started, and the error raised carries no timing attachment.
C1_MissingCredential ==
  (apiKey \in {None, Some("")} /\ pc # "start") =>
    /\ pc = "raised"
    /\ outcome.kind = "error"
    /\ outcome.timing = None
    /\ providerStartTime = None
    /\ vendorCalls = 0
    /\ toolExecs = 0

C1_Witness == apiKey = Some("") /\ pc = "raised" /\ outcome.kind = "error"

\* C2 as stated: a request never makes more than 10 vendor calls, and a
\* vendor that always answers with a tool invocation gives iterations 10.
C2_AtMostTenCalls ==
  /\ vendorCalls <= MAX_ITERATIONS
  /\ (pc = "returned" /\ Len(batch) > 0 /\ vendorCalls = iterationCount + 1)
       => Timing.iterations = MAX_ITERATIONS

\* C2, amended: a request makes at most 11 vendor calls (the initial one and
\* 10 in the loop); when every response carries a tool invocation the
\* request returns, without raising, an envelope with iterations 11.
C2_CapIsInitialPlusTen ==
  /\ vendorCalls <= MAX_ITERATIONS + 1
  /\ iterationCount = MAX_ITERATIONS =>
       (pc = "returned" /\ outcome.kind = "envelope")
  /\ (pc = "returned" /\ Len(batch) > 0 /\ vendorCalls = iterationCount + 1)
       => (/\ outcome.kind = "envelope"
           /\ Timing.iterations = MAX_ITERATIONS + 1
           /\ vendorCalls = MAX_ITERATIONS + 1)

C2_Witness ==
  /\ pc = "returned"
  /\ Len(batch) > 0
  /\ vendorCalls = MAX_ITERATIONS + 1
  /\ Timing.iterations = MAX_ITERATIONS + 1

\* C3: a vendor call that raises, the initial one or one of the loop, makes
\* executeRequest raise an error with timing attached; no envelope is
\* returned.
C3_VendorFailureAborts ==
  [][VendorCallRaises =>
       (pc' = "raised" /\ outcome'.kind = "error" /\ outcome'.timing # None)]_vars

\* C4: with forced order [A, B], the vendor call after a response that
\* invoked A under the directive forcing A forces B, and the vendor call
\* after a response that invoked B under the directive forcing B forces no
\* tool.
C4_ForcedSequence ==
  [][(/\ IssuesNextCall
      /\ ForcedToolsOf(usageControl) = <<"A", "B">>)
     => /\ (directive = Force("A") /\ "A" \in BatchNames(batch))
             => directive' = Force("B")
        /\ (directive = Force("B") /\ "B" \in BatchNames(batch))
             => Unconstrained(directive')]_vars

\* C5: with the single forced tool A, the vendor call after a response that
\* invoked A under the directive forcing A carries a directive that forces
\* no tool, and so does every later vendor call.
C5_ForcedSingle ==
  [][(/\ IssuesNextCall
      /\ ForcedToolsOf(usageControl) = <<"A">>
      /\ \/ directive = Force("A") /\ "A" \in BatchNames(batch)
         \/ Unconstrained(directive))
     => Unconstrained(directive')]_vars

C5_Witness ==
  /\ ForcedToolsOf(usageControl) = <<"A">>
  /\ pc = "awaitNext"
  /\ vendorCalls >= 3
  /\ Unconstrained(directive)

\* C6: when the first vendor response carries no tool invocation the request
\* returns after exactly one vendor call and no tool execution, with
\* iterations 1.
C6_NoToolUse ==
  (/\ pc \notin {"start", "awaitInitial"}
   /\ outcome.kind # "error"
   /\ iterationCount = 0
   /\ batch = <<>>)
  => /\ pc = "returned"
     /\ outcome.kind = "envelope"
     /\ vendorCalls = 1
     /\ toolExecs = 0
     /\ Timing.iterations = 1

C6_Witness ==
  pc = "returned" /\ iterationCount = 0 /\ batch = <<>> /\ vendorCalls = 1

MaxBatchLen == Max({Len(b) : b \in Batches})

\* The external calls the request can still make, at most: a measure that
\* every step of the request decreases.
Remaining ==
  CASE pc = "start" -> (MAX_ITERATIONS + 1) * (MaxBatchLen + 1) + 2
    [] pc = "awaitInitial" -> (MAX_ITERATIONS + 1) * (MaxBatchLen + 1) + 1
    [] pc = "awaitTool" ->
         (MAX_ITERATIONS - iterationCount) * (MaxBatchLen + 1)
           + (MaxBatchLen + 1 - idx)
    [] pc = "awaitNext" -> (MAX_ITERATIONS - iterationCount) * (MaxBatchLen + 1)
    [] OTHER -> 0

\* C7: when every vendor call and tool execution returns or raises the
\* request terminates: it is always either done or waiting for one external
\* call, and each return of a call brings it closer to the end by a measure
\* that is never negative.  At the iteration cap it returns an envelope
\* holding the content, tokens, tool call records and time segments
\* accumulated up to that point.
C7_Terminates ==
  /\ [](Done \/ pc \in {"start", "awaitInitial", "awaitNext", "awaitTool"})
  /\ [](Remaining >= 0 /\ (Remaining = 0 <=> Done))
  /\ [][Remaining' < Remaining]_vars
  /\ [](iterationCount = MAX_ITERATIONS =>
          /\ pc = "returned"
          /\ outcome.kind = "envelope"
          /\ Envelope.content = FinalContent(provider, content)
          /\ Envelope.tokens = tokens
          /\ Envelope.toolCalls = Optional(toolCalls)
          /\ Envelope.toolResults = Optional(toolResults)
          /\ Timing.timeSegments = timeSegments)

C7_Witness ==
  /\ iterationCount = MAX_ITERATIONS
  /\ pc = "returned"
  /\ Len(toolCalls) > 0
  /\ Len(batch) > 0

RECURSIVE SumSeen(_, _, _)
\* The sum over the responses received of field f of the usage block.
SumSeen(seen, us, f) ==
  IF us = {} THEN 0
  ELSE LET u == CHOOSE x \in us : TRUE
       IN seen[u] * (IF u = None THEN 0
                     ELSE IF u[1][f] = Missing THEN 0 ELSE u[1][f])
          + SumSeen(seen, us \ {u}, f)

\* The total a response reports: total_tokens for Deepseek; input plus
\* output for Anthropic, whose usage block has no total.
ReportedTotal ==
  IF provider = "anthropic"
  THEN SumSeen(usageSeen, Usages, "prompt")
       + SumSeen(usageSeen, Usages, "completion")
  ELSE SumSeen(usageSeen, Usages, "total")

GoesOn ==
  IF \E j \in (idx + 1)..Len(batch) : Resolves(provider, batch[j])
  THEN /\ pc' = "awaitTool"
       /\ idx' > idx
       /\ Resolves(provider, batch[idx'])
       /\ \A j \in (idx + 1)..(idx' - 1) : ~Resolves(provider, batch[j])
       /\ toolExecs' = toolExecs + 1
       /\ vendorCalls' = vendorCalls
  ELSE /\ pc' = "awaitNext"
       /\ vendorCalls' = vendorCalls + 1
       /\ toolExecs' = toolExecs

NothingRecorded ==
  /\ toolCalls' = toolCalls
  /\ toolResults' = toolResults
  /\ currentMessages' = currentMessages

\* C9: a tool execution reporting success=false adds nothing to toolCalls,
\* toolResults and the message history, and the loop goes on with the next
\* invocation of the response and then the next vendor call.
C9_FailedToolSkipped ==
  [][(pc = "awaitTool" /\ lastOutcome' = "fail")
     => (NothingRecorded /\ GoesOn)]_vars

C9_Witness ==
  /\ lastOutcome = "fail"
  /\ pc = "awaitTool"
  /\ idx = 2
  /\ toolCalls = <<>>
  /\ currentMessages = messages

\* C10: an exception thrown for one tool invocation, by executeTool or by
\* the parsing of its arguments, is confined to it: nothing is recorded for
\* it, the remaining invocations are processed, the next vendor call is
\* issued and executeRequest does not raise.
C10_ToolFaultIsolated ==
  /\ [][(pc = "awaitTool" /\ lastOutcome' = "throw")
        => (NothingRecorded /\ GoesOn /\ outcome'.kind # "error")]_vars
  /\ [](provider = "deepseek" =>
          /\ \A i \in 1..Len(toolCalls) : Parses(toolCalls[i].arguments)
          /\ pc = "awaitTool" => Parses(batch[idx].arguments))
  /\ [][(/\ provider = "deepseek"
         /\ pc \in {"awaitInitial", "awaitNext"}
         /\ pc' \notin {"returned", "raised"}
         /\ Len(batch') = 2
         /\ ~Parses(batch'[1].arguments))
        => /\ pc' = "awaitTool"
           /\ idx' = 2
           /\ toolCalls' = toolCalls
           /\ toolResults' = toolResults
           /\ pc = "awaitNext" => currentMessages' = currentMessages]_vars

C10_Witness ==
  /\ lastOutcome = "throw"
  /\ pc = "awaitTool"
  /\ idx = 2
  /\ toolCalls = <<>>

\* C11: every failure of executeRequest other than the missing credential,
\* a failure of the normalization included, is raised as an error whose
\* timing attachment has exactly startTime, endTime and duration, with
\* endTime the time of the failure and duration = endTime - startTime >= 0.
C11_FailureCarriesTiming ==
  (pc = "raised" /\ apiKey \notin {None, Some("")}) =>
    /\ outcome.kind = "error"
    /\ outcome.timing # None
    /\ DOMAIN Timing = {"startTime", "endTime", "duration"}
    /\ Timing.endTime = now
    /\ Timing.duration = Timing.endTime - Timing.startTime
    /\ Timing.duration >= 0

\* C12: on every return of an envelope, timing.iterations is the loop count
\* plus one and is the number of vendor calls issued; after one response
\* with a tool invocation, one successful execution and a final response
\* with text, the content is that text and toolCalls has length 1.
C12_IterationsCountCalls ==
  pc = "returned" =>
    /\ Timing.iterations = iterationCount + 1
    /\ Timing.iterations = vendorCalls
    /\ (iterationCount = 1 /\ batch = <<>> /\ succeeded = 1
          /\ lastText = <<"o", "k">>)
         => (/\ Envelope.content = <<"o", "k">>
             /\ Envelope.toolCalls # None
             /\ Len(Envelope.toolCalls[1]) = 1)

\* The external calls issued and not yet returned.
Outstanding == vendorCalls + toolExecs - completed

\* C13: at most one external call of the request is outstanding at any
\* time, a vendor call or a tool execution; the invocations of a response
\* are executed one at a time in the order of the response, none that can
\* be executed being passed over, and toolCalls grows by the record of the
\* invocation just executed, at its end, exactly when the execution
\* succeeded.
C13_Sequential ==
  /\ [](Outstanding \in {0, 1})
  /\ [](Outstanding = 1 <=> pc \in {"awaitInitial", "awaitNext", "awaitTool"})
  /\ [](pc = "awaitTool" => vendorCalls = iterationCount + 1)
  /\ [][(pc' = "awaitTool" /\ toolExecs' # toolExecs)
        => /\ toolExecs' = toolExecs + 1
           /\ vendorCalls' = vendorCalls
           /\ idx' \in 1..Len(batch')
           /\ Resolves(provider, batch'[idx'])
           /\ \A j \in 1..(idx' - 1) :
                 (pc # "awaitTool" \/ j > idx) => ~Resolves(provider, batch'[j])
           /\ pc = "awaitTool" => (batch' = batch /\ idx' > idx)]_vars
  /\ [][IF pc = "awaitTool" /\ succeeded' = succeeded + 1
        THEN /\ Len(toolCalls') = Len(toolCalls) + 1
             /\ SubSeq(toolCalls', 1, Len(toolCalls)) = toolCalls
             /\ toolCalls'[Len(toolCalls')].name = batch[idx].name
             /\ toolCalls'[Len(toolCalls')].arguments = batch[idx].arguments
        ELSE toolCalls' = toolCalls]_vars

C13_Witness ==
  /\ pc = "awaitNext"
  /\ vendorCalls >= 3
  /\ Len(toolCalls) >= 3
  /\ toolCalls[1].name = "A"
  /\ toolCalls[2].name = "B"
  /\ succeeded = Len(toolCalls)

\* Event e can resume an invocation in local state s.
Applicable(s, e) ==
  CASE e.kind = "invoke" -> s.pc = "start"
    [] e.kind \in {"response", "raise"} -> s.pc \in {"awaitInitial", "awaitNext"}
    [] OTHER -> s.pc = "awaitTool"

RECURSIVE SoloFrom(_, _, _, _)
\* The local state of request c run alone from state s through the events
\* of log from position i on, on a clock of its own.
SoloFrom(c, s, log, i) ==
  IF i > Len(log) THEN s
  ELSE IF ~Applicable(s, log[i]) THEN [s EXCEPT !.pc = "stuck"]
  ELSE SoloFrom(c, Step(c, s, log[i], s.now), log, i + 1)

\* The tool call records without their timestamps.
TimelessCalls(q) ==
  [j \in 1..Len(q) |->
     [name |-> q[j].name, arguments |-> q[j].arguments, result |-> q[j].result]]

\* The local state s of a request without its timestamps: the accumulators,
\* the forced-tool tracking state and what the request has returned.
Timeless(s) ==
  [pc |-> s.pc, directive |-> s.directive, batch |-> s.batch, idx |-> s.idx,
   content |-> s.content, tokens |-> s.tokens,
   toolCalls |-> TimelessCalls(s.toolCalls), toolResults |-> s.toolResults,
   history |-> [j \in 1..Len(s.currentMessages) |->
                  [role |-> s.currentMessages[j].role,
                   type |-> s.currentMessages[j].type,
                   name |-> s.currentMessages[j].name]],
   segments |-> [j \in 1..Len(s.timeSegments) |->
                   [type |-> s.timeSegments[j].type,
                    name |-> s.timeSegments[j].name]],
   iterationCount |-> s.iterationCount,
   hasUsedForcedTool |-> s.hasUsedForcedTool,
   usedForcedTools |-> s.usedForcedTools,
   vendorCalls |-> s.vendorCalls, toolExecs |-> s.toolExecs,
   kind |-> s.outcome.kind,
   envelope |->
     IF s.outcome.envelope = None THEN None
     ELSE Some([content |-> s.outcome.envelope[1].content,
                tokens |-> s.outcome.envelope[1].tokens,
                toolCalls |->
                  IF s.outcome.envelope[1].toolCalls = None THEN None
                  ELSE Some(TimelessCalls(s.outcome.envelope[1].toolCalls[1])),
                toolResults |-> s.outcome.envelope[1].toolResults,
                iterations |-> s.outcome.timing[1].iterations])]

\* C14: when invocations of executeRequest run interleaved at their awaits,
\* a step of one leaves the variables of the others as they are, and the
\* accumulators, the forced-tool tracking state and the envelope of each
\* are, timestamps apart, those it has when run alone against the same
\* vendor and tool responses.
C14_Isolated ==
  /\ [](\A i \in DOMAIN reqs :
          Timeless(reqs[i].s) = Timeless(SoloFrom(reqs[i], Fresh, reqs[i].log, 1)))
  /\ [][\A i, j \in DOMAIN reqs :
          (i # j /\ reqs'[i] # reqs[i]) => reqs'[j] = reqs[j]]_vars

\* Both requests have returned after a tool execution each, the two
\* executions overlapping in time.
C14_Witness ==
  /\ DOMAIN reqs = {1, 2}
  /\ \A i \in {1, 2} :
       /\ reqs[i].s.pc = "returned"
       /\ Len(reqs[i].s.toolCalls) = 1
  /\ reqs[1].s.toolCalls[1].startTime < reqs[2].s.toolCalls[1].endTime
  /\ reqs[2].s.toolCalls[1].startTime < reqs[1].s.toolCalls[1].endTime
  /\ reqs[1].s.outcome.timing[1].duration >
       SoloFrom(reqs[1], Fresh, reqs[1].log, 1).outcome.timing[1].duration

\* C15: in a returned envelope toolCalls and toolResults are absent, not
\* empty lists, exactly when no tool execution of the request succeeded;
\* when at least one succeeded both are present and hold one entry for
\* each.
C15_ListsAbsentWhenEmpty ==
  pc = "returned" =>
    /\ Envelope.toolCalls = None <=> succeeded = 0
    /\ Envelope.toolResults = None <=> succeeded = 0
    /\ Envelope.toolCalls # Some(<<>>)
    /\ Envelope.toolResults # Some(<<>>)
    /\ succeeded > 0 =>
         /\ Len(Envelope.toolCalls[1]) = succeeded
         /\ Len(Envelope.toolResults[1]) = succeeded

\* A request returns after tool executions of which none succeeded.
C15_Witness ==
  /\ pc = "returned"
  /\ toolExecs >= 2
  /\ succeeded = 0
  /\ Envelope.toolCalls = None
  /\ Envelope.toolResults = None

\* Text t has a "{" and a "}" after it.
HasSpan(t) ==
  \E i \in Positions(t, "{") : \E j \in Positions(t, "}") : i < j

\* The part of t from its first "{" to its last "}".
Span(t) == SubSeq(t, Min(Positions(t, "{")), Max(Positions(t, "}")))

\* C16: in both adapters the content of a returned envelope is the part of
\* the accumulated content from its first "{" to its last "}" when it has
\* a "{" with a "}" after it, and the accumulated content unchanged when
\* it has not; extracting again from the result changes nothing.
C16_JsonSpanExtracted ==
  pc = "returned" =>
    /\ Envelope.content = (IF HasSpan(content) THEN Span(content) ELSE content)
    /\ HasSpan(Envelope.content) => Span(Envelope.content) = Envelope.content

\* Text u occurs in text t.
Contains(t, u) ==
  \E i \in 1..(Len(t) - Len(u) + 1) : SubSeq(t, i, i + Len(u) - 1) = u

\* Text t without its blanks and newlines.
Squeeze(t) == SelectSeq(t, LAMBDA c : ~IsBlank(c))

\* The placeholder of a property type in the template: "value", 0, true,
\* [] or {}.
Placeholder(type) ==
  CASE type = "number" -> <<"0">>
    [] type = "boolean" -> <<"true">>
    [] type = "array" -> <<"[", "]">>
    [] type = "object" -> <<"{", "}">>
    [] OTHER -> <<"\"", "value", "\"">>

\* The properties of the schema of the request.
Declared == responseFormat[1].properties[1]

\* C17: in structured-output mode the system prompt of the payload holds,
\* white space apart, the template {"score": 0} for the schema with the one
\* property score of type number, and in general each declared property
\* with the placeholder of its type, not quoted as a string; it forbids
\* wrapping in an array and fields the schema does not declare.
C17_TemplateLiteral ==
  (/\ provider = "anthropic"
   /\ pc = "awaitInitial"
   /\ responseFormat # None
   /\ responseFormat[1].properties # None)
  => /\ Declared = <<[key |-> "score", type |-> "number"]>> =>
          Contains(Squeeze(systemPrompt),
                   <<"{", "\"", "score", "\"", ":", "0", "}">>)
     /\ \A i \in 1..Len(Declared) :
          \E sep \in {",", "}"} :
            Contains(Squeeze(systemPrompt),
                     <<"\"", Declared[i].key, "\"", ":">>
                       \o Placeholder(Declared[i].type) \o <<sep>>)
     /\ Contains(systemPrompt, <<"3. DO NOT wrap the response in an array">>)
     /\ Contains(systemPrompt,
                 <<"4. DO NOT add any fields not specified in the schema">>)

\* C18 as stated: the running content is the text of the latest response
\* that carried any, or empty when none has; a response without text leaves
\* it as it is.
C18_LatestText ==
  /\ [](content = lastText)
  /\ [][(pc = "awaitNext" /\ lastText' = lastText) => content' = content]_vars

\* C18, amended: the running content is the text of the latest response
\* that carried any, which the Deepseek adapter keeps with the code fence
\* markers taken out and the white space at its ends trimmed; it is empty
\* when no response has carried text, and a response without text leaves it
\* as it is.
C18_LatestTextCleaned ==
  /\ [](provider = "anthropic" => content = lastText)
  /\ [](provider = "deepseek" => content = CleanContent(lastText))
  /\ [][(pc = "awaitNext" /\ lastText' = lastText) => content' = content]_vars

\* The third response and those before it carried tool invocations, the
\* later ones without text; the content is still that of the first.
C18_Witness ==
  /\ provider = "deepseek"
  /\ iterationCount >= 2
  /\ Len(batch) > 0
  /\ lastText = <<"F", "J", "N", "a", "{", "s", "}", "b", "N", "F">>
  /\ content = <<"a", "{", "s", "}", "b">>

\* The messages the loop has appended to the history.
Appended ==
  SubSeq(currentMessages, Len(messages) + 1, Len(currentMessages))

\* C19: the messages the loop appends to the history come in adjacent
\* pairs, a tool-invocation message and then a tool-result message with the
\* same identifier, one pair for each successful tool execution and nothing
\* otherwise: at every vendor call, and at any other time, the history is
\* the initial messages and two messages for each toolCalls record, and no
\* tool-invocation message is without its result, whatever was thrown
\* while a tool call was processed.
C19_MessagePairs ==
  currentMessages # <<>> =>
    /\ SubSeq(currentMessages, 1, Len(messages)) = messages
    /\ Len(toolCalls) = succeeded
    /\ Len(Appended) = 2 * Len(toolCalls)
    /\ \A k \in 1..Len(Appended) :
         IF k % 2 = 1
         THEN /\ Appended[k].type = "tool_use"
              /\ Appended[k].role = "assistant"
              /\ Appended[k].name = toolCalls[(k + 1) \div 2].name
              /\ k + 1 <= Len(Appended)
              /\ Appended[k + 1].type = "tool_result"
              /\ Appended[k + 1].id = Appended[k].id
         ELSE Appended[k].type = "tool_result"

\* C20: the identifiers of the tool-invocation messages appended during one
\* request are pairwise distinct, whether the two tool executions belong to
\* the same response or to different responses.
C20_IdsDistinct ==
  \A i, j \in 1..Len(Appended) :
    (i # j /\ Appended[i].type = "tool_use" /\ Appended[j].type = "tool_use")
      => Appended[i].id # Appended[j].id

\* The 'tool' segments recorded so far.
ToolSegments == SelectSeq(timeSegments, LAMBDA g : g.type = "tool")

\* Names of the tools the request declares.
DeclaredNames == {DeclaredTools[i] : i \in 1..Len(DeclaredTools)}

\* The positions after the first of batch b whose invocation names a
\* declared tool with arguments that can be read.
LaterExecutable(b) ==
  { j \in 2..Len(b) :
      /\ b[j].name \in DeclaredNames
      /\ provider = "deepseek" => b[j].arguments # "bad" }

\* C21: an invocation whose name no declared tool has is skipped silently:
\* executeTool is never called for it; no tool call record, tool result,
\* tool segment or history message ever bears its name; when a response
\* starts with such an invocation the loop goes on, without recording
\* anything, to the first later invocation that can be executed, or to the
\* next vendor call when there is none, and the request does not fail.
C21_UnknownToolSkipped ==
  /\ [](pc = "awaitTool" => batch[idx].name \in DeclaredNames)
  /\ [](/\ \A i \in 1..Len(toolCalls) : toolCalls[i].name \in DeclaredNames
        /\ \A i \in 1..Len(toolResults) : toolResults[i][2] \in DeclaredNames
        /\ \A i \in 1..Len(ToolSegments) : ToolSegments[i].name \in DeclaredNames
        /\ \A i \in 1..Len(Appended) : Appended[i].name \in DeclaredNames)
  /\ [][(/\ pc \in {"awaitInitial", "awaitNext"}
         /\ pc' \in {"awaitTool", "awaitNext"}
         /\ batch'[1].name \notin DeclaredNames)
        => /\ toolCalls' = toolCalls
           /\ toolResults' = toolResults
           /\ Appended' = Appended
           /\ ToolSegments' = ToolSegments
           /\ outcome'.kind # "error"
           /\ IF LaterExecutable(batch') # {}
              THEN /\ pc' = "awaitTool"
                   /\ idx' = Min(LaterExecutable(batch'))
                   /\ toolExecs' = toolExecs + 1
                   /\ vendorCalls' = vendorCalls
              ELSE /\ pc' = "awaitNext"
                   /\ toolExecs' = toolExecs
                   /\ vendorCalls' = vendorCalls + 1]_vars

C21_Witness ==
  /\ pc = "awaitTool"
  /\ batch[1].name = "X"
  /\ idx = 2
  /\ toolExecs = 1
  /\ toolCalls = <<>>
  /\ currentMessages = messages

\* C22: every call of executeTool that returns, reporting success or
\* failure, adds one 'tool' segment that runs from the start of the call to
\* its end, so that there are as many tool segments as tool executions
\* that returned.
C22_ToolSegmentPerExecution ==
  [][(pc = "awaitTool" /\ lastOutcome' # "throw")
     => /\ Len(ToolSegments') = Len(ToolSegments) + 1
        /\ ToolSegments'[Len(ToolSegments')] =
             [type |-> "tool", name |-> batch[idx].name,
              startTime |-> callStart, endTime |-> now',
              duration |-> now' - callStart]]_vars

\* The 'model' segments of a segment sequence.
ModelSegments(q) == SelectSeq(q, LAMBDA g : g.type = "model")

RECURSIVE SumDurations(_)
SumDurations(q) ==
  IF q = <<>> THEN 0 ELSE Head(q).duration + SumDurations(Tail(q))

\* A vendor call returns a response in this step.
ResponseArrives ==
  pc \in {"awaitInitial", "awaitNext"} /\ usageSeen' # usageSeen

\* C23: every vendor call that returns a response adds exactly one 'model'
\* segment, from the start of the call to its end, and no other step adds
\* one; a returned envelope has as many model segments as iterations, its
\* first segment is the model segment of the initial call, with the
\* duration firstResponseTime, and modelTime is the sum of the durations of
\* the model segments.
C23_ModelSegmentPerCall ==
  /\ [][IF ResponseArrives
        THEN /\ Len(ModelSegments(timeSegments')) =
                  Len(ModelSegments(timeSegments)) + 1
             /\ timeSegments'[Len(timeSegments')].type = "model"
             /\ timeSegments'[Len(timeSegments')].startTime = callStart
             /\ timeSegments'[Len(timeSegments')].endTime = now'
             /\ timeSegments'[Len(timeSegments')].duration = now' - callStart
        ELSE ModelSegments(timeSegments') = ModelSegments(timeSegments)]_vars
  /\ [](pc = "returned" =>
          /\ Len(ModelSegments(Timing.timeSegments)) = Timing.iterations
          /\ Timing.timeSegments[1].type = "model"
          /\ Timing.timeSegments[1].name = "Initial response"
          /\ Timing.timeSegments[1].duration = Timing.firstResponseTime
          /\ Timing.modelTime =
               SumDurations(ModelSegments(Timing.timeSegments)))

C23_Witness ==
  /\ pc = "returned"
  /\ Timing.iterations = 3
  /\ Len(ModelSegments(Timing.timeSegments)) = 3
  /\ Len(Timing.timeSegments) > 3
  /\ Timing.modelTime = 3 * Tick

\* Sequence a is an initial part of sequence b.
IsPrefix(a, b) == Len(a) <= Len(b) /\ SubSeq(b, 1, Len(a)) = a

\* C24: toolCalls, toolResults, timeSegments and the message history only
\* grow at their end during a request: across every step the old value of
\* each is an initial part of its new value, so that nothing appended is
\* changed or removed; the envelope returns the sequences as they are then.
C24_AppendOnly ==
  /\ [][/\ IsPrefix(toolCalls, toolCalls')
        /\ IsPrefix(toolResults, toolResults')
        /\ IsPrefix(timeSegments, timeSegments')
        /\ IsPrefix(currentMessages, currentMessages')]_vars
  /\ [](pc = "returned" =>
          /\ Timing.timeSegments = timeSegments
          /\ Len(toolCalls) > 0 => Envelope.toolCalls = Some(toolCalls)
          /\ Len(toolResults) > 0 => Envelope.toolResults = Some(toolResults))

C24_Witness ==
  /\ pc = "returned"
  /\ Len(toolCalls) >= 3
  /\ Len(toolResults) >= 3
  /\ Len(timeSegments) >= 6
  /\ Len(Appended) >= 6

\* The fields of a payload other than its message history and its
\* tool-choice directive.
FixedFields == DOMAIN payload[1] \ {"messages", "tool_choice"}

\* C25: the loop changes neither the request nor the initial payload: the
\* normalized message list sent with the first call, the system prompt,
\* the model, tools and sampling parameters of the payload and its
\* original tool-choice directive stay as they are in every step; the
\* payload of each later vendor call is the initial payload but for its
\* message history, which is the running history and starts with the
\* normalized list, and its tool-choice directive.
C25_RequestUnchanged ==
  /\ [][config' = config]_vars
  /\ [][payload # None =>
          /\ payload' = payload
          /\ messages' = messages
          /\ systemPrompt' = systemPrompt
          /\ originalToolChoice' = originalToolChoice
          /\ forcedTools' = forcedTools]_vars
  /\ [](payload # None =>
          /\ payload[1].messages = messages
          /\ payload[1].tool_choice = originalToolChoice)
  /\ [](pc = "awaitNext" =>
          /\ \A f \in FixedFields : nextPayload[1][f] = payload[1][f]
          /\ nextPayload[1].messages = currentMessages
          /\ IsPrefix(messages, nextPayload[1].messages)
          /\ nextPayload[1].tool_choice = directive)

C25_Witness ==
  /\ pc = "awaitNext"
  /\ vendorCalls >= 3
  /\ nextPayload[1].messages # payload[1].messages
  /\ nextPayload[1].tool_choice # payload[1].tool_choice
  /\ payload[1].messages = messages

\* A vendor call raises in this step.
RaiseArrives ==
  /\ pc \in {"awaitInitial", "awaitNext"}
  /\ completed' = completed + 1
  /\ usageSeen' = usageSeen

\* C26: a vendor call that raised is not issued again: the step in which a
\* vendor call raises ends the request, by an error or by an envelope,
\* without issuing a vendor call or a tool execution, and a request that
\* has ended issues none.
C26_NoRetry ==
  /\ [][RaiseArrives =>
          /\ pc' \in {"raised", "returned"}
          /\ vendorCalls' = vendorCalls
          /\ toolExecs' = toolExecs]_vars
  /\ [][Done => (pc' = pc /\ vendorCalls' = vendorCalls
                          /\ toolExecs' = toolExecs)]_vars
  /\ [](Done => Outstanding = 0)

C26_Witness ==
  /\ pc = "raised"
  /\ outcome.timing # None
  /\ vendorCalls = 2
  /\ toolExecs = 1
  /\ completed = 3

\* C27: a request whose tool-choice directive was unconstrained (absent or
\* auto) for one vendor call has an unconstrained directive for every later
\* vendor call; and when the response obtained under a directive forcing a
\* tool invoked only other tools, the next vendor call carries the same
\* directive.
C27_DirectiveMonotone ==
  /\ [][(IssuesNextCall /\ Unconstrained(directive))
        => Unconstrained(directive')]_vars
  /\ [][(/\ IssuesNextCall
         /\ IsObject(directive)
         /\ directive.name \notin BatchNames(batch'))
        => directive' = directive]_vars

C27_Witness ==
  /\ pc = "awaitNext"
  /\ vendorCalls = 3
  /\ directive = Force("A")
  /\ BatchNames(batch) = {"X", "B"}
  /\ toolExecs = 2

\* C28: toolCalls and toolResults always have the same length, and the
\* i-th tool result is the result field of the i-th record; the name of
\* each record is the id of a declared tool and its arguments are those the
\* model supplied, presets not included; executeTool is called with every
\* key of the presets and of the model's arguments, and with the model's
\* value where both have the key.
C28_RecordsAndMergedArgs ==
  /\ [](/\ Len(toolCalls) = Len(toolResults)
        /\ \A i \in 1..Len(toolCalls) :
             /\ toolResults[i] = toolCalls[i].result
             /\ toolCalls[i].name \in DeclaredNames)
  /\ [](pc = "awaitTool" =>
          LET preset == ToolParams(batch[idx].name)
              model == ToolArgs(batch[idx].arguments)
          IN /\ DOMAIN mergedArgs[1] = DOMAIN preset \cup DOMAIN model
             /\ \A x \in DOMAIN model : mergedArgs[1][x] = model[x]
             /\ \A x \in DOMAIN preset \ DOMAIN model :
                  mergedArgs[1][x] = preset[x])
  /\ [][(pc = "awaitTool" /\ Len(toolCalls') > Len(toolCalls))
        => /\ toolCalls'[Len(toolCalls')].arguments = batch[idx].arguments
           /\ toolCalls'[Len(toolCalls')].name = batch[idx].name]_vars

C28_Witness ==
  /\ pc = "awaitTool"
  /\ batch[idx].name = "A"
  /\ mergedArgs = Some([k |-> "model", p |-> "preset", q |-> "model"])
  /\ Len(toolCalls) >= 2
  /\ toolCalls[1].name = "A"

\* C29: the segments of timeSegments are in the order of time and do not
\* overlap, each starting no earlier than the one before it ends; the
\* first is a model segment and, in a returned envelope, so is the last;
\* when the loop stops at the cap the invocations of the last response are
\* not executed.
C29_SegmentsOrdered ==
  /\ [](\A i \in 1..Len(timeSegments) :
          /\ timeSegments[i].startTime <= timeSegments[i].endTime
          /\ i > 1 => timeSegments[i - 1].endTime <= timeSegments[i].startTime)
  /\ [](timeSegments # <<>> => timeSegments[1].type = "model")
  /\ [](pc = "returned" =>
          Timing.timeSegments[Len(Timing.timeSegments)].type = "model")
  /\ [][(pc # "returned" /\ pc' = "returned" /\ iterationCount' = MAX_ITERATIONS)
        => toolExecs' = toolExecs]_vars

\* The end of the vendor call answered last.
LastModelEnd ==
  ModelSegments(timeSegments)[Len(ModelSegments(timeSegments))].endTime

\* No tool call has been recorded since the response received last.
NoneSucceeded ==
  \A i \in 1..Len(toolCalls) : toolCalls[i].startTime < LastModelEnd

\* The message history sent with the vendor call issued last.
SentHistory ==
  IF nextPayload = None THEN payload[1].messages ELSE nextPayload[1].messages

\* C30: when a response carries tool invocations and none of them ends in
\* a successful execution, the loop still issues the next vendor call,
\* with the message history that was sent with the call before, and the
\* response to it counts as an iteration toward the cap.
C30_IdleIterationGoesOn ==
  /\ [][(/\ pc \in {"awaitInitial", "awaitNext", "awaitTool"}
         /\ pc' \notin {"awaitTool", "raised"}
         /\ ~RaiseArrives
         /\ Len(batch') > 0
         /\ iterationCount' < MAX_ITERATIONS)
        => (pc' = "awaitNext" /\ vendorCalls' = vendorCalls + 1)]_vars
  /\ [][(IssuesNextCall /\ NoneSucceeded')
        => /\ SentHistory' = SentHistory
           /\ currentMessages' = SentHistory]_vars
  /\ [][(pc = "awaitNext" /\ ResponseArrives)
        => iterationCount' = iterationCount + 1]_vars
  /\ [](iterationCount <= MAX_ITERATIONS)

C30_Witness ==
  /\ pc = "returned"
  /\ iterationCount = MAX_ITERATIONS
  /\ vendorCalls = MAX_ITERATIONS + 1
  /\ Len(batch) > 0
  /\ toolCalls = <<>>
  /\ nextPayload[1].messages = messages

====
